---- MODULE Spec2Model ----
(***************************************************************************)
(* Model of Group16/final.py and Group16/Group16_Final.py: the ticker      *)
(* normalisation (format_ticker), the provider-table flattening (flatten)  *)
(* and the metrics engine (fetch_price_and_metrics).                       *)
(*                                                                         *)
(* Texts are sequences of one-character strings.  Floating-point values    *)
(* are exact rationals [num, den] in lowest terms with den > 0; the value  *)
(* with den = 0 is NaN.  Timestamps are day ordinals (days since           *)
(* 1970-01-01); every provider row is stamped at midnight.                 *)
(* The market selector values of the source are written in ASCII:          *)
(*   "US" = 美國, "TW" = 台灣, "JP" = 日本, "UK" = 英國.                   *)
(***************************************************************************)
EXTENDS Integers, Sequences, FiniteSets, TLC

VARIABLES
    raw,          \* format_ticker: the raw symbol text
    market,       \* format_ticker: the market selector value
    ticker,       \* the value format_ticker returned (None before the call)
    start_date,   \* fetch_price_and_metrics: start_date argument
    end_date,     \* fetch_price_and_metrics: end_date argument
    raw_df,       \* the table yf.download returns for this request
    result,       \* outcome of fetch_price_and_metrics
    pc,           \* "ready" before the call, "done" after it
    entry_expense,    \* text of the annual-expense entry
    entry_infl,       \* text of the inflation entry
    ret,              \* outcome of the latest show_stock / calculate_retirement
    display,          \* contents of the charts, the result texts and table_ret
    packed,           \* the top-level widgets that are packed (shown)
    last_nav,         \* the latest navigation operation
    is_music_playing, \* the module-level music flag
    speaker_icon      \* image of the speaker canvas item: "on" or "off"

\* the variables of the presentation layer
guiVars == <<entry_expense, entry_infl, ret, display, packed, last_nav,
             is_music_playing, speaker_icon>>

vars == <<raw, market, ticker, start_date, end_date, raw_df, result, pc,
          entry_expense, entry_infl, ret, display, packed, last_nav,
          is_music_playing, speaker_icon>>

-----------------------------------------------------------------------------
(* Bounds *)

MaxRaw == 3       \* longest raw symbol text tried
MaxRows == 4      \* most rows in a provider table

-----------------------------------------------------------------------------
(* Python values *)

None == <<"None">>

\* Python truthiness of an optional text: None and "" are falsy.
Truthy(s) == s # None /\ s # <<>>

Whitespace == {" ", "\t"}

LowerCase == <<"a","b","c","d","e","f","g","h","i","j","k","l","m",
               "n","o","p","q","r","s","t","u","v","w","x","y","z">>
UpperCase == <<"A","B","C","D","E","F","G","H","I","J","K","L","M",
               "N","O","P","Q","R","S","T","U","V","W","X","Y","Z">>

\* str.upper on one character
upper_char(c) ==
    IF \E i \in 1..26 : LowerCase[i] = c
    THEN UpperCase[CHOOSE i \in 1..26 : LowerCase[i] = c]
    ELSE c

\* str.upper
upper(s) == [i \in 1..Len(s) |-> upper_char(s[i])]

RECURSIVE lstrip(_)
lstrip(s) == IF s # <<>> /\ Head(s) \in Whitespace THEN lstrip(Tail(s)) ELSE s

RECURSIVE rstrip(_)
rstrip(s) ==
    IF s # <<>> /\ s[Len(s)] \in Whitespace
    THEN rstrip(SubSeq(s, 1, Len(s) - 1))
    ELSE s

\* str.strip
strip(s) == rstrip(lstrip(s))

-----------------------------------------------------------------------------
(* format_ticker *)

Suffix_JapanAsTaiwan(mk) ==
    CASE mk = "TW" -> <<".", "T", "W">>
      [] mk = "JP" -> <<".", "T", "W">>
      [] mk = "UK" -> <<".", "L">>
      [] OTHER -> <<>>

\* the suffix dictionary and its .get(market, "") default
Suffix(mk) ==
    CASE mk = "TW" -> <<".", "T", "W">>
      [] mk = "JP" -> <<".", "T">>
      [] mk = "UK" -> <<".", "L">>
      [] OTHER -> <<>>

format_ticker(r, mk) ==
    LET r1 == upper(strip(r))
    IN  IF mk = "US" THEN r1 ELSE r1 \o Suffix(mk)

-----------------------------------------------------------------------------
(* Floating-point values as exact rationals *)

RECURSIVE GCD(_, _)
GCD(a, b) == IF b = 0 THEN a ELSE GCD(b, a % b)

Abs(x) == IF x < 0 THEN 0 - x ELSE x

\* n/d in lowest terms, d > 0
Rat(n, d) ==
    LET g == GCD(Abs(n), Abs(d))
        sgn == IF d < 0 THEN 0 - 1 ELSE 1
    IN  [num |-> sgn * (n \div g), den |-> sgn * (d \div g)]

NaN == [num |-> 0, den |-> 0]

IsNaN(x) == x.den = 0

FromInt(n) == [num |-> n, den |-> 1]

RatMul(x, y) == Rat(x.num * y.num, x.den * y.den)

RatSub(x, y) == Rat(x.num * y.den - y.num * x.den, x.den * y.den)

RatAdd(x, y) == Rat(x.num * y.den + y.num * x.den, x.den * y.den)

\* x / y for y # 0
RatDiv(x, y) == Rat(x.num * y.den, x.den * y.num)

-----------------------------------------------------------------------------
(* Calendar dates: pd.to_datetime of a YYYY-MM-DD text *)

Digits == <<"0", "1", "2", "3", "4", "5", "6", "7", "8", "9">>

IsDigit(c) == \E i \in 1..10 : Digits[i] = c

DigitVal(c) == (CHOOSE i \in 1..10 : Digits[i] = c) - 1

IsLeap(y) == (y % 4 = 0 /\ y % 100 # 0) \/ y % 400 = 0

DaysInMonth(y, mo) ==
    IF mo = 2 THEN (IF IsLeap(y) THEN 29 ELSE 28)
    ELSE IF mo \in {4, 6, 9, 11} THEN 30 ELSE 31

\* day ordinal of a civil date (days since 1970-01-01)
DaysFromCivil(y, mo, d) ==
    LET y1 == IF mo <= 2 THEN y - 1 ELSE y
        era == y1 \div 400
        yoe == y1 - era * 400
        mp == (mo + 9) % 12
        doy == (153 * mp + 2) \div 5 + d - 1
        doe == yoe * 365 + yoe \div 4 - yoe \div 100 + doy
    IN  era * 146097 + doe - 719468

to_datetime_AcceptsAnyMonth(s) ==
    IF /\ Len(s) = 10
       /\ s[5] = "-" /\ s[8] = "-"
       /\ \A i \in {1, 2, 3, 4, 6, 7, 9, 10} : IsDigit(s[i])
    THEN LET y == 1000 * DigitVal(s[1]) + 100 * DigitVal(s[2])
                  + 10 * DigitVal(s[3]) + DigitVal(s[4])
             mo == 10 * DigitVal(s[6]) + DigitVal(s[7])
             d == 10 * DigitVal(s[9]) + DigitVal(s[10])
         IN  [ok |-> TRUE, value |-> DaysFromCivil(y, mo, d)]
    ELSE [ok |-> FALSE, value |-> 0]

\* pd.to_datetime(text): the Timestamp (day ordinal), or an exception
to_datetime(s) ==
    IF /\ Len(s) = 10
       /\ s[5] = "-" /\ s[8] = "-"
       /\ \A i \in {1, 2, 3, 4, 6, 7, 9, 10} : IsDigit(s[i])
    THEN LET y == 1000 * DigitVal(s[1]) + 100 * DigitVal(s[2])
                  + 10 * DigitVal(s[3]) + DigitVal(s[4])
             mo == 10 * DigitVal(s[6]) + DigitVal(s[7])
             d == 10 * DigitVal(s[9]) + DigitVal(s[10])
         IN  IF mo \in 1..12 /\ d \in 1..DaysInMonth(y, mo)
             THEN [ok |-> TRUE, value |-> DaysFromCivil(y, mo, d)]
             ELSE [ok |-> FALSE, value |-> 0]
    ELSE [ok |-> FALSE, value |-> 0]

-----------------------------------------------------------------------------
(* The provider table and the data frame                                   *)
(*                                                                         *)
(* A provider table is [nlevels, columns, Date, AdjClose]: the number of   *)
(* column levels, the column labels (tuples of nlevels names), the date    *)
(* index and the values under the "Adj Close" label (empty when the table  *)
(* has no such column).  After reset_index a frame is a sequence of rows.  *)

flatten_KeepsLevels(df) == df

\* flatten: a MultiIndex is replaced by its level-0 names
flatten(df) ==
    IF df.nlevels > 1
    THEN [df EXCEPT !.nlevels = 1,
                    !.columns = [i \in 1..Len(df.columns) |-> <<df.columns[i][1]>>]]
    ELSE df

table_empty_Never(df) == FALSE

\* df.empty on a table: some axis has length 0
table_empty(df) == Len(df.Date) = 0 \/ Len(df.columns) = 0

\* name in df.columns
has_column(df, name) == \E i \in 1..Len(df.columns) : df.columns[i] = <<name>>

\* df.reset_index(): the date index becomes the "Date" column
reset_index(df) ==
    [i \in 1..Len(df.Date) |-> [Date |-> df.Date[i], AdjClose |-> df.AdjClose[i]]]

RowFrom_Strict(r, sd) == r.Date > sd

\* the row mask df["Date"] >= sd
RowFrom(r, sd) == r.Date >= sd

RowUntil_Ignored(r, ed) == TRUE

\* the row mask df["Date"] <= ed
RowUntil(r, ed) == r.Date <= ed

\* df[df["Date"] >= sd]
filter_from(df, sd) == SelectSeq(df, LAMBDA r : RowFrom(r, sd))

\* df[df["Date"] <= ed]
filter_until(df, ed) == SelectSeq(df, LAMBDA r : RowUntil(r, ed))

pct_change_OverFirst(df) ==
    [i \in 1..Len(df) |->
        IF i = 1 THEN NaN
        ELSE RatSub(RatDiv(FromInt(df[i].AdjClose), FromInt(df[1].AdjClose)),
                    FromInt(1))]

\* df["Adj Close"].pct_change(): NaN on the first row
pct_change(df) ==
    [i \in 1..Len(df) |->
        IF i = 1 THEN NaN
        ELSE RatSub(RatDiv(FromInt(df[i].AdjClose), FromInt(df[i - 1].AdjClose)),
                    FromInt(1))]

\* df["Return"] = ...
with_return(df) ==
    LET r == pct_change(df)
    IN  [i \in 1..Len(df) |->
            [Date |-> df[i].Date, AdjClose |-> df[i].AdjClose, Return |-> r[i]]]

\* df.dropna(subset=["Return"])
dropna(df) == SelectSeq(df, LAMBDA r : ~IsNaN(r.Return))

RECURSIVE cumprod_from(_, _, _)
cumprod_from(s, acc, out) ==
    IF s = <<>> THEN out
    ELSE LET a == RatMul(acc, Head(s))
         IN  cumprod_from(Tail(s), a, Append(out, a))

\* Series.cumprod()
cumprod(s) == cumprod_from(s, FromInt(1), <<>>)

\* df["CumReturn"] = (1 + df["Return"]).cumprod() - 1
with_cumreturn(df) ==
    LET c == cumprod([i \in 1..Len(df) |-> RatAdd(FromInt(1), df[i].Return)])
    IN  [i \in 1..Len(df) |->
            [Date |-> df[i].Date, AdjClose |-> df[i].AdjClose,
             Return |-> df[i].Return, CumReturn |-> RatSub(c[i], FromInt(1))]]

-----------------------------------------------------------------------------
(* fetch_price_and_metrics *)

elapsed_years_Of365(t0, t1) == Rat(t1 - t0, 365)

\* years = (t1 - t0).days / 365.25
elapsed_years(t0, t1) == Rat((t1 - t0) * 4, 1461)

\* cagr = (last / first) ** (1 / years) - 1, kept as the pair (base, exponent)
\* that denotes base ** exponent - 1
cagr_of(first, last, years) ==
    [base |-> RatDiv(FromInt(last), FromInt(first)),
     exponent |-> RatDiv(FromInt(1), years)]

\* df["Return"].clip(upper=0) on one value
clip_upper0(x) == IF x.num > 0 THEN FromInt(0) ELSE x

LCM(a, b) == (a \div GCD(a, b)) * b

RECURSIVE common_den(_)
\* a common denominator of a sequence of values
common_den(xs) == IF xs = <<>> THEN 1 ELSE LCM(Head(xs).den, common_den(Tail(xs)))

RECURSIVE sum_seq(_)
sum_seq(xs) == IF xs = <<>> THEN 0 ELSE Head(xs) + sum_seq(Tail(xs))

\* the square of Series.std(): the sample variance (ddof = 1), NaN for fewer
\* than two values
sample_var(xs) ==
    LET n == Len(xs)
        D == common_den(xs)
        a == [i \in 1..n |-> xs[i].num * (D \div xs[i].den)]
        S1 == sum_seq(a)
        S2 == sum_seq([i \in 1..n |-> a[i] * a[i]])
    IN  IF n < 2 THEN NaN ELSE Rat(n * S2 - S1 * S1, n * (n - 1) * D * D)

\* d_std = df["Downside"].std() * np.sqrt(252), kept as its square / 252
downside_var(df) == sample_var([i \in 1..Len(df) |-> clip_upper0(df[i].Return)])

\* truthiness of the float d_std: only 0.0 is falsy (NaN is truthy)
d_std_truthy(v) == IsNaN(v) \/ v.num # 0

SortinoNaN == [nan |-> TRUE, cagr |-> <<>>, dvar |-> NaN]

\* sortino = (cagr - risk_free_rate) / d_std if d_std else np.nan, with
\* risk_free_rate = 0.  A defined value is kept as the pair (cagr, dvar) that
\* denotes cagr / sqrt(dvar * 252).
sortino_of(c, v) ==
    IF d_std_truthy(v)
    THEN (IF IsNaN(v) THEN SortinoNaN ELSE [nan |-> FALSE, cagr |-> c, dvar |-> v])
    ELSE SortinoNaN

NoMetrics == <<>>

\* an exception leaves the function: nothing is returned.  stages and
\* filtered record how far the call got (filtered: the frame tested at the
\* emptiness check, when that check was reached)
Raise(kind, stages, filtered) ==
    [kind |-> kind, stages |-> stages, filtered |-> filtered,
     df |-> <<>>, metrics |-> NoMetrics]

\* std_annual = df["Return"].std() * np.sqrt(252), kept as its square / 252
return_var(df) == sample_var([i \in 1..Len(df) |-> df[i].Return])

\* the statistics part of the function: the frame that passed the emptiness
\* check.  std and sharpe are numpy float expressions that never raise; they
\* are kept as the variance and as the pair (cagr, variance) that denotes
\* cagr / sqrt(variance * 252).
compute_metrics(df3, stages) ==
    LET df4 == with_cumreturn(dropna(with_return(df3)))
        st == stages \cup {"returns"}
    IN  IF df4 = <<>>
        THEN Raise("IndexError", st, df3)
        ELSE
        LET t0 == df4[1].Date
            t1 == df4[Len(df4)].Date
            years == elapsed_years(t0, t1)
        IN  IF years.num = 0
            THEN Raise("ZeroDivisionError", st, df3)
            ELSE
            [kind |-> "ok",
             stages |-> st \cup {"metrics"},
             filtered |-> df3,
             df |-> df4,
             metrics |->
                [start |-> t0,
                 end |-> t1,
                 years |-> years,
                 cum |-> RatMul(df4[Len(df4)].CumReturn, FromInt(100)),
                 cagr |-> cagr_of(df4[1].AdjClose, df4[Len(df4)].AdjClose, years),
                 std |-> return_var(df4),
                 sharpe |-> [cagr |-> cagr_of(df4[1].AdjClose,
                                              df4[Len(df4)].AdjClose, years),
                             var |-> return_var(df4)],
                 sortino |-> sortino_of(
                                cagr_of(df4[1].AdjClose, df4[Len(df4)].AdjClose, years),
                                downside_var(df4))]]

fetch_price_and_metrics_RangeBeforeEnd(tk, sd, ed, rdf) ==
    LET df0 == flatten(rdf)
    IN  IF table_empty(df0) \/ ~has_column(df0, "Adj Close")
        THEN Raise("DataUnavailable", {"download"}, <<>>)
        ELSE
        LET df1 == reset_index(df0)
            sdp == IF Truthy(sd) THEN to_datetime(sd) ELSE [ok |-> TRUE, value |-> 0]
        IN  IF ~sdp.ok
            THEN Raise("InvalidDateFormat_start", {"download", "parse_start"}, <<>>)
            ELSE
            LET df2 == IF Truthy(sd) THEN filter_from(df1, sdp.value) ELSE df1
                st2 == {"download"} \cup
                       (IF Truthy(sd) THEN {"parse_start", "filter_start"} ELSE {})
                edp == IF Truthy(ed) THEN to_datetime(ed) ELSE [ok |-> TRUE, value |-> 0]
            IN  IF df2 = <<>>
                THEN Raise("EmptyRange", st2, df2)
                ELSE IF ~edp.ok
                THEN Raise("InvalidDateFormat_end", st2 \cup {"parse_end"}, <<>>)
                ELSE
                LET df3 == IF Truthy(ed) THEN filter_until(df2, edp.value) ELSE df2
                    st3 == st2 \cup
                           (IF Truthy(ed) THEN {"parse_end", "filter_end"} ELSE {})
                IN  IF df3 = <<>>
                    THEN Raise("EmptyRange", st3, df3)
                    ELSE compute_metrics(df3, st3)

\* fetch_price_and_metrics(ticker, start_date, end_date) when yf.download
\* answers rdf.  kind is "ok" (df and metrics are returned) or the exception
\* that leaves the function:
\*   DataUnavailable          ValueError, line 59
\*   InvalidDateFormat_start  ValueError, line 67
\*   InvalidDateFormat_end    ValueError, line 73
\*   EmptyRange               ValueError, line 77
\*   IndexError               df["Date"].iloc[0] on a frame without rows, line 85
\*   ZeroDivisionError        1/years with years = 0.0, line 89
fetch_price_and_metrics(tk, sd, ed, rdf) ==
    LET df0 == flatten(rdf)
    IN  IF table_empty(df0) \/ ~has_column(df0, "Adj Close")
        THEN Raise("DataUnavailable", {"download"}, <<>>)
        ELSE
        LET df1 == reset_index(df0)
            sdp == IF Truthy(sd) THEN to_datetime(sd) ELSE [ok |-> TRUE, value |-> 0]
        IN  IF ~sdp.ok
            THEN Raise("InvalidDateFormat_start", {"download", "parse_start"}, <<>>)
            ELSE
            LET df2 == IF Truthy(sd) THEN filter_from(df1, sdp.value) ELSE df1
                st2 == {"download"} \cup
                       (IF Truthy(sd) THEN {"parse_start", "filter_start"} ELSE {})
                edp == IF Truthy(ed) THEN to_datetime(ed) ELSE [ok |-> TRUE, value |-> 0]
            IN  IF ~edp.ok
                THEN Raise("InvalidDateFormat_end", st2 \cup {"parse_end"}, <<>>)
                ELSE
                LET df3 == IF Truthy(ed) THEN filter_until(df2, edp.value) ELSE df2
                    st3 == st2 \cup
                           (IF Truthy(ed) THEN {"parse_end", "filter_end"} ELSE {})
                IN  IF df3 = <<>>
                    THEN Raise("EmptyRange", st3, df3)
                    ELSE compute_metrics(df3, st3)

-----------------------------------------------------------------------------
(* Inputs of the metrics specification *)

\* "%04d" and "%02d"
D2(n) == <<Digits[(n \div 10) + 1], Digits[(n % 10) + 1]>>
D4(n) == D2(n \div 100) \o D2(n % 100)

\* the text YYYY-MM-DD of a date
DateText(y, mo, d) == D4(y) \o <<"-">> \o D2(mo) \o <<"-">> \o D2(d)

\* the trading days a provider table may hold
TradingDays ==
    {DaysFromCivil(2021, 1, 1), DaysFromCivil(2021, 6, 30),
     DaysFromCivil(2021, 12, 31), DaysFromCivil(2022, 1, 1),
     DaysFromCivil(2022, 6, 30)}

\* adjusted closing prices
Prices == {50, 100, 110}

\* values of the start_date / end_date arguments
DateArgs ==
    {None, <<>>,
     DateText(2020, 12, 31), DateText(2021, 6, 30), DateText(2022, 1, 1),
     DateText(2022, 7, 1),
     DateText(2021, 13, 1), <<"a", "b", "c">>}

RECURSIVE SortedSeq(_)
\* the ascending sequence of a set of day ordinals
SortedSeq(S) ==
    IF S = {} THEN <<>>
    ELSE LET mn == CHOOSE x \in S : \A y \in S : x <= y
         IN  <<mn>> \o SortedSeq(S \ {mn})

\* date indexes: strictly increasing, at most MaxRows long
DateIndexes == {SortedSeq(S) : S \in {T \in SUBSET TradingDays : Cardinality(T) <= MaxRows}}

SingleLevel == [nlevels |-> 1, columns |-> <<<<"Close">>, <<"Adj Close">>>>]
MultiLevel == [nlevels |-> 2,
               columns |-> <<<<"Close", "TKR">>, <<"Adj Close", "TKR">>>>]
NoAdjClose == [nlevels |-> 1, columns |-> <<<<"Close">>>>]

\* the tables yf.download may answer
ProviderTables ==
    UNION {
        {[nlevels |-> h.nlevels, columns |-> h.columns, Date |-> idx, AdjClose |-> p] :
            h \in {SingleLevel, MultiLevel}, p \in [1..Len(idx) -> Prices]}
        \cup
        {[nlevels |-> 1, columns |-> NoAdjClose.columns, Date |-> idx, AdjClose |-> <<>>]}
        : idx \in DateIndexes}

-----------------------------------------------------------------------------
(* Python conversions used by the presentation layer *)

RECURSIVE digits_value(_)
\* the integer a digit text denotes
digits_value(ds) ==
    IF ds = <<>> THEN 0
    ELSE digits_value(SubSeq(ds, 1, Len(ds) - 1)) * 10 + DigitVal(ds[Len(ds)])

RECURSIVE Pow10(_)
Pow10(n) == IF n = 0 THEN 1 ELSE 10 * Pow10(n - 1)

\* float(text) for decimal literals: surrounding whitespace, an optional sign,
\* digits with an optional decimal point; anything else raises ValueError.
\* (Exponents, underscores and the literals nan / inf are not among the texts
\* the specifications draw.)
float_parse(s) ==
    LET t == strip(s)
        neg == t # <<>> /\ Head(t) = "-"
        u == IF t # <<>> /\ Head(t) \in {"-", "+"} THEN Tail(t) ELSE t
        dot == IF \E i \in 1..Len(u) : u[i] = "."
               THEN CHOOSE i \in 1..Len(u) : u[i] = "." /\ \A j \in 1..(i - 1) : u[j] # "."
               ELSE Len(u) + 1
        ip == SubSeq(u, 1, dot - 1)
        fp == SubSeq(u, dot + 1, Len(u))
        mag == Rat(digits_value(ip \o fp), Pow10(Len(fp)))
    IN  IF /\ Len(ip) + Len(fp) > 0
           /\ \A i \in 1..Len(ip) : IsDigit(ip[i])
           /\ \A i \in 1..Len(fp) : IsDigit(fp[i])
        THEN [ok |-> TRUE, value |-> IF neg THEN RatSub(FromInt(0), mag) ELSE mag]
        ELSE [ok |-> FALSE, value |-> FromInt(0)]

\* floor of n/d for d > 0
FloorDiv(n, d) == IF n >= 0 THEN n \div d ELSE 0 - ((0 - n + d - 1) \div d)

\* the value a format specification ".<places>f" prints, as the integer number
\* of 10^-places units: round to nearest, ties to even
format_f(x, places) ==
    LET n == x.num * Pow10(places)
        q == FloorDiv(n, x.den)
        r2 == 2 * (n - q * x.den)
    IN  IF r2 > x.den \/ (r2 = x.den /\ q % 2 = 1) THEN q + 1 ELSE q

\* the civil date of a day ordinal: Timestamp.date(), .dt.year
CivilFromDays(z) ==
    LET z1 == z + 719468
        era == z1 \div 146097
        doe == z1 - era * 146097
        yoe == (doe - doe \div 1460 + doe \div 36524 - doe \div 146096) \div 365
        doy == doe - (365 * yoe + yoe \div 4 - yoe \div 100)
        mp == (5 * doy + 2) \div 153
        d == doy - (153 * mp + 2) \div 5 + 1
        mo == IF mp < 10 THEN mp + 3 ELSE mp - 9
        y == yoe + era * 400 + (IF mo <= 2 THEN 1 ELSE 0)
    IN  [year |-> y, month |-> mo, day |-> d]

\* str(date): YYYY-MM-DD
date_text(z) ==
    LET c == CivilFromDays(z)
    IN  D4(c.year) \o <<"-">> \o D2(c.month) \o <<"-">> \o D2(c.day)

RECURSIVE IntPow(_, _)
IntPow(b, e) == IF e = 0 THEN 1 ELSE b * IntPow(b, e - 1)

\* largest integer root the exact evaluation of ** looks for
MaxRoot == 6

HasRoot(n, q) == \E k \in 0..MaxRoot : IntPow(k, q) = n

Root(n, q) == CHOOSE k \in 0..MaxRoot : IntPow(k, q) = n

\* the float base ** exponent - 1 kept by cagr_of, for the summaries whose
\* value is rational: base = 1, or exponent = 1/q and base a perfect q-th
\* power.  The presentation specifications draw only provider tables of this
\* kind; the operator has no value elsewhere.
cagr_value(c) ==
    CASE c.base = FromInt(1) -> FromInt(0)
      [] /\ c.base # FromInt(1)
         /\ c.exponent.num = 1
         /\ HasRoot(c.base.num, c.exponent.den)
         /\ HasRoot(c.base.den, c.exponent.den) ->
            RatSub(Rat(Root(c.base.num, c.exponent.den), Root(c.base.den, c.exponent.den)),
                   FromInt(1))

-----------------------------------------------------------------------------
(* Inputs of the ticker specification *)

TickerAlphabet == {" ", "a", "A", "0", "."}

Markets == {"US", "TW", "JP", "UK", "", "HK"}

RawTexts == UNION {[1..n -> TickerAlphabet] : n \in 0..MaxRaw}

NoDf == [nlevels |-> 1, columns |-> <<>>, Date |-> <<>>, AdjClose |-> <<>>]
NoResult == Raise("none", {}, <<>>)

\* the widgets as the module builds them: empty axes, empty texts,
\* rowdata=[] (lines 467-500 and 560-592).  A widget holds the sequence of
\* what was last drawn into it: nothing, one chart or text, the table's rows.
InitialDisplay ==
    [ax_stock |-> <<>>, txt_metrics_stock |-> <<>>,
     ax_ret |-> <<>>, table_ret |-> <<>>, txt_result_ret |-> <<>>]

\* no handler has run yet
NoRequest ==
    [handler |-> "none", kind |-> "none", provider_calls |-> 0,
     ticker |-> None, fetch |-> NoResult,
     real_withdraw |-> NaN, need_capital |-> NaN]

\* the presentation layer right after the module has been executed:
\* main_canvas packed (line 326), both frames forgotten (lines 503, 594),
\* music off with the speaker-off icon (lines 27, 374)
InitGui ==
    /\ entry_expense = <<>>
    /\ entry_infl = <<>>
    /\ ret = NoRequest
    /\ display = InitialDisplay
    /\ packed = {"main_canvas"}
    /\ last_nav = "go_home"
    /\ is_music_playing = FALSE
    /\ speaker_icon = "off"

InitTicker ==
    /\ raw \in RawTexts
    /\ market \in Markets
    /\ ticker = None
    /\ start_date = None
    /\ end_date = None
    /\ raw_df = NoDf
    /\ result = NoResult
    /\ pc = "ready"
    /\ InitGui

\* one call format_ticker(raw, market)
FormatTicker ==
    /\ pc = "ready"
    /\ ticker' = format_ticker(raw, market)
    /\ pc' = "done"
    /\ UNCHANGED <<raw, market, start_date, end_date, raw_df, result>>
    /\ UNCHANGED guiVars

NextTicker == FormatTicker

SpecTicker == InitTicker /\ [][NextTicker]_vars

-----------------------------------------------------------------------------
(* The metrics specification: one call of fetch_price_and_metrics *)

Init ==
    /\ raw = <<"a">>
    /\ market = "US"
    /\ ticker = format_ticker(raw, market)
    /\ start_date \in DateArgs
    /\ end_date \in DateArgs
    /\ raw_df \in ProviderTables
    /\ result = NoResult
    /\ pc = "ready"
    /\ InitGui

\* one call fetch_price_and_metrics(ticker, start_date, end_date)
Fetch ==
    /\ pc = "ready"
    /\ result' = fetch_price_and_metrics(ticker, start_date, end_date, raw_df)
    /\ pc' = "done"
    /\ UNCHANGED <<raw, market, ticker, start_date, end_date, raw_df>>
    /\ UNCHANGED guiVars

Next == Fetch

Spec == Init /\ [][Next]_vars

-----------------------------------------------------------------------------
(* show_stock and calculate_retirement (final.py)                          *)
(*                                                                         *)
(* A handler is an operator from the texts of its entries, the table the   *)
(* provider answers if it is asked, and the current display to the record  *)
(* [handler, kind, provider_calls, ticker, fetch, real_withdraw,           *)
(* need_capital, display].  kind is "ok" or the message box that ends the  *)
(* request: NonNumericExpense, NonNumericInflation, EmptyTicker,           *)
(* FetchFailed (any exception of fetch_price_and_metrics) or               *)
(* InsufficientReturn.  Group16_Final.py differs in reporting both numeric *)
(* errors with one message and in having no table_ret.                     *)

Handled(h, kind, calls, tk, f, rw, need, disp) ==
    [handler |-> h, kind |-> kind, provider_calls |-> calls, ticker |-> tk,
     fetch |-> f, real_withdraw |-> rw, need_capital |-> need, display |-> disp]

\* start_date if start_date else None, after .strip()
optional_text(s) == IF strip(s) # <<>> THEN strip(s) ELSE None

\* the line plot of the cumulative return in percent
stock_chart(tk, df) ==
    [title |-> tk,
     x |-> [i \in 1..Len(df) |-> df[i].Date],
     y |-> [i \in 1..Len(df) |-> RatMul(df[i].CumReturn, FromInt(100))]]

\* the text of txt_metrics_stock: the ticker and the summary it is formatted from
stock_text(tk, mt) ==
    [ticker |-> tk, start |-> date_text(mt.start), end |-> date_text(mt.end),
     years |-> format_f(mt.years, 2), cum |-> format_f(mt.cum, 2),
     cagr |-> mt.cagr, std |-> mt.std, sharpe |-> mt.sharpe, sortino |-> mt.sortino]

\* lines 138-165: show_stock once fetch_price_and_metrics has come back with f
show_stock_fetched(tk, f, disp) ==
    IF f.kind # "ok"
    THEN Handled("show_stock", "FetchFailed", 1, tk, f, NaN, NaN, disp)
    ELSE Handled("show_stock", "ok", 1, tk, f, NaN, NaN,
                 [disp EXCEPT !.ax_stock = <<stock_chart(tk, f.df)>>,
                              !.txt_metrics_stock = <<stock_text(tk, f.metrics)>>])

show_stock(raw_txt, mk, start_txt, end_txt, rdf, disp) ==
    IF strip(raw_txt) = <<>>
    THEN Handled("show_stock", "EmptyTicker", 0, None, NoResult, NaN, NaN, disp)
    ELSE show_stock_fetched(
            format_ticker(strip(raw_txt), mk),
            fetch_price_and_metrics(format_ticker(strip(raw_txt), mk),
                                    optional_text(start_txt), optional_text(end_txt), rdf),
            disp)

\* the line plot of the adjusted close
price_chart(tk, df) ==
    [title |-> tk,
     x |-> [i \in 1..Len(df) |-> df[i].Date],
     y |-> [i \in 1..Len(df) |-> df[i].AdjClose]]

RatLeq(x, y) == x.num * y.den <= y.num * x.den

\* df_copy["Year"] = df_copy["Date"].dt.year
row_year(r) == CivilFromDays(r.Date).year

\* the group of one year
year_group(df, y) == SelectSeq(df, LAMBDA r : row_year(r) = y)

\* the row at g["Date"].idxmax()
row_idxmax(g) == g[CHOOSE i \in 1..Len(g) : \A j \in 1..Len(g) : g[j].Date <= g[i].Date]

\* the row at g["Date"].idxmin()
row_idxmin(g) == g[CHOOSE i \in 1..Len(g) : \A j \in 1..Len(g) : g[i].Date <= g[j].Date]

\* g["CumReturn"].max()
cumreturn_max(g) ==
    g[CHOOSE i \in 1..Len(g) :
        \A j \in 1..Len(g) : RatLeq(g[j].CumReturn, g[i].CumReturn)].CumReturn

\* the pd.Series the lambda of groupby("Year").apply builds for one group,
\* from the group's rows of the latest and the earliest date
year_series(g, lst, fst) ==
    [end_date |-> lst.Date,
     end_price |-> FromInt(lst.AdjClose),
     annual_return |->
        RatMul(RatSub(Rat(lst.AdjClose, fst.AdjClose), FromInt(1)), FromInt(100)),
     cum_return |-> RatMul(cumreturn_max(g), FromInt(100))]

year_summary(g) == year_series(g, row_idxmax(g), row_idxmin(g))

\* the row insert_row receives for one year
year_row(y, sm) ==
    [Year |-> y,
     end_date |-> date_text(sm.end_date),
     end_price |-> format_f(sm.end_price, 2),
     annual_return |-> format_f(sm.annual_return, 2),
     cum_return |-> format_f(sm.cum_return, 2)]

\* the years of the frame, ascending as groupby sorts them
frame_years(df) == SortedSeq({row_year(df[i]) : i \in 1..Len(df)})

\* the rows inserted into table_ret
year_table(df) ==
    [k \in 1..Len(frame_years(df)) |->
        year_row(frame_years(df)[k], year_summary(year_group(df, frame_years(df)[k])))]

\* m["ann"] = cagr * 100
ann(mt) == RatMul(cagr_value(mt.cagr), FromInt(100))

need_capital_of_Product(expense, rw) == RatMul(expense, rw)

\* need_capital = expense / real_withdraw
need_capital_of(expense, rw) == RatDiv(expense, rw)

\* the text of txt_result_ret
retirement_text(tk, mt, infl, rw, expense, need) ==
    [ticker |-> tk, start |-> date_text(mt.start), end |-> date_text(mt.end),
     years |-> format_f(mt.years, 2), ann |-> format_f(ann(mt), 2),
     infl |-> format_f(RatMul(infl, FromInt(100)), 2),
     real_withdraw |-> format_f(RatMul(rw, FromInt(100)), 2),
     expense |-> format_f(expense, 0), need_capital |-> format_f(need, 0)]

retirement_validation_TickerFirst(exp_txt, infl_txt, raw_txt) ==
    IF strip(raw_txt) = <<>> THEN "EmptyTicker"
    ELSE IF ~float_parse(exp_txt).ok THEN "NonNumericExpense"
    ELSE IF ~float_parse(infl_txt).ok THEN "NonNumericInflation"
    ELSE "ok"

\* lines 176-192: the first input check that fails, or "ok"
retirement_validation(exp_txt, infl_txt, raw_txt) ==
    IF ~float_parse(exp_txt).ok THEN "NonNumericExpense"
    ELSE IF ~float_parse(infl_txt).ok THEN "NonNumericInflation"
    ELSE IF strip(raw_txt) = <<>> THEN "EmptyTicker"
    ELSE "ok"

\* real_withdraw = (m["ann"] / 100) - infl
real_withdraw_of(mt, infl) == RatSub(RatDiv(ann(mt), FromInt(100)), infl)

\* lines 217-259: chart, per-year table and text of a calculation that got
\* as far as need_capital
retirement_display(tk, f, expense, infl, rw, need, disp) ==
    [disp EXCEPT !.ax_ret = <<price_chart(tk, f.df)>>,
                 !.table_ret = year_table(f.df),
                 !.txt_result_ret =
                     <<retirement_text(tk, f.metrics, infl, rw, expense, need)>>]

retirement_result_DrawsFirst(tk, f, expense, infl, rw, disp) ==
    IF RatLeq(rw, FromInt(0))
    THEN Handled("calculate_retirement", "InsufficientReturn", 1, tk, f, rw, NaN,
                 [disp EXCEPT !.ax_ret = <<price_chart(tk, f.df)>>])
    ELSE Handled("calculate_retirement", "ok", 1, tk, f, rw,
                 need_capital_of(expense, rw),
                 retirement_display(tk, f, expense, infl, rw,
                                    need_capital_of(expense, rw), disp))

\* lines 211-259: the part of calculate_retirement after real_withdraw
retirement_result(tk, f, expense, infl, rw, disp) ==
    IF RatLeq(rw, FromInt(0))
    THEN Handled("calculate_retirement", "InsufficientReturn", 1, tk, f, rw, NaN, disp)
    ELSE Handled("calculate_retirement", "ok", 1, tk, f, rw,
                 need_capital_of(expense, rw),
                 retirement_display(tk, f, expense, infl, rw,
                                    need_capital_of(expense, rw), disp))

\* lines 205-259: calculate_retirement once fetch_price_and_metrics has come
\* back with f
calculate_retirement_fetched(tk, f, expense, infl, disp) ==
    IF f.kind # "ok"
    THEN Handled("calculate_retirement", "FetchFailed", 1, tk, f, NaN, NaN, disp)
    ELSE retirement_result(tk, f, expense, infl, real_withdraw_of(f.metrics, infl), disp)

calculate_retirement(exp_txt, infl_txt, raw_txt, mk, start_txt, end_txt, rdf, disp) ==
    IF retirement_validation(exp_txt, infl_txt, raw_txt) # "ok"
    THEN Handled("calculate_retirement", retirement_validation(exp_txt, infl_txt, raw_txt),
                 0, None, NoResult, NaN, NaN, disp)
    ELSE calculate_retirement_fetched(
            format_ticker(strip(raw_txt), mk),
            fetch_price_and_metrics(format_ticker(strip(raw_txt), mk),
                                    optional_text(start_txt), optional_text(end_txt), rdf),
            float_parse(exp_txt).value,
            RatDiv(float_parse(infl_txt).value, FromInt(100)),
            disp)

\* the part of a handler's record kept in ret
request_of(h) ==
    [handler |-> h.handler, kind |-> h.kind, provider_calls |-> h.provider_calls,
     ticker |-> h.ticker, fetch |-> h.fetch,
     real_withdraw |-> h.real_withdraw, need_capital |-> h.need_capital]

-----------------------------------------------------------------------------
(* The retirement specification: one click on the retirement button *)

\* the trading days of the tables the retirement specification draws: the
\* first row (dropped with its undefined return), the first and the last
\* observation four years (1461 days) apart, and days in between
RetFirst == DaysFromCivil(2021, 1, 1)
RetStart == DaysFromCivil(2021, 1, 4)
RetMid == {DaysFromCivil(2021, 7, 1), DaysFromCivil(2021, 12, 31)}
RetLast == DaysFromCivil(2025, 1, 4)

\* prices whose ratios are exact fourth powers: 81/16 = (3/2)^4
RetPrices == {16, 81}

RetIndexes ==
    {<<>>, <<RetFirst>>, <<RetFirst, RetStart>>}
    \cup {<<RetFirst, RetStart>> \o SortedSeq(M) \o <<RetLast>> : M \in SUBSET RetMid}

\* the tables yf.download may answer to the retirement request
RetTables ==
    UNION {
        {[nlevels |-> 1, columns |-> SingleLevel.columns, Date |-> idx,
          AdjClose |-> [i \in 1..Len(idx) |-> IF i = 1 THEN 16 ELSE p[i]]] :
            p \in [1..Len(idx) -> RetPrices]}
        : idx \in RetIndexes}
    \cup {[nlevels |-> 1, columns |-> NoAdjClose.columns,
           Date |-> <<RetFirst, RetStart, RetLast>>, AdjClose |-> <<>>]}

\* texts of the expense entry
ExpenseTexts == {<<"4", "0", "0", "0", "0">>, <<"x">>, <<>>}

\* texts of the inflation entry (percent)
InflTexts == {<<"5", "0">>, <<"2", "5">>, <<"0">>, <<"a", "b", "c">>}

\* texts of the ticker entry
RetRawTexts == {<<>>, <<" ">>, <<"a">>}

\* texts of the start date entry
RetStartTexts == {<<>>, DateText(2021, 1, 1), <<"a", "b", "c">>}

\* texts of the end date entry
RetEndTexts == {<<>>, DateText(2025, 1, 4), DateText(2020, 1, 1)}

InitRetire ==
    /\ raw \in RetRawTexts
    /\ market \in {"US", "TW"}
    /\ ticker = None
    /\ start_date \in RetStartTexts
    /\ end_date \in RetEndTexts
    /\ raw_df \in RetTables
    /\ result = NoResult
    /\ pc = "ready"
    /\ entry_expense \in ExpenseTexts
    /\ entry_infl \in InflTexts
    /\ ret = NoRequest
    /\ display = InitialDisplay
    /\ packed = {"retirement_frame"}
    /\ last_nav = "open_retirement"
    /\ is_music_playing = FALSE
    /\ speaker_icon = "off"

\* one call calculate_retirement(): the button of the retirement frame
CalculateRetirement ==
    /\ pc = "ready"
    /\ "retirement_frame" \in packed
    /\ \E h \in {calculate_retirement(entry_expense, entry_infl, raw, market,
                                     start_date, end_date, raw_df, display)} :
          /\ ret' = request_of(h)
          /\ display' = h.display
          /\ ticker' = h.ticker
          /\ result' = h.fetch
    /\ pc' = "done"
    /\ UNCHANGED <<raw, market, start_date, end_date, raw_df>>
    /\ UNCHANGED <<entry_expense, entry_infl, packed, last_nav,
                   is_music_playing, speaker_icon>>

NextRetire == CalculateRetirement

SpecRetire == InitRetire /\ [][NextRetire]_vars

-----------------------------------------------------------------------------
(* Navigation and music (final.py lines 299-312 and 376-395) *)

Screens == {"main_canvas", "stock_query_frame", "retirement_frame"}

\* go_home: both frames are forgotten, the home canvas is packed
go_home(p) == (p \ {"stock_query_frame", "retirement_frame"}) \cup {"main_canvas"}

open_stock_query_KeepsRetirement(p) == (p \ {"main_canvas"}) \cup {"stock_query_frame"}

\* open_stock_query: the canvas and the retirement frame are forgotten, the
\* stock-query frame is packed
open_stock_query(p) ==
    (p \ {"main_canvas", "retirement_frame"}) \cup {"stock_query_frame"}

\* open_retirement: the canvas and the stock-query frame are forgotten, the
\* retirement frame is packed
open_retirement(p) ==
    (p \ {"main_canvas", "stock_query_frame"}) \cup {"retirement_frame"}

toggle_music_FlagFirst(playing, icon, starts) ==
    IF playing
    THEN [is_music_playing |-> FALSE, speaker_icon |-> "off"]
    ELSE IF starts
         THEN [is_music_playing |-> TRUE, speaker_icon |-> "on"]
         ELSE [is_music_playing |-> TRUE, speaker_icon |-> icon]

\* toggle_music: while playing, stop, clear the flag and show the off icon;
\* otherwise load, set the volume and play, and only then set the flag and show
\* the on icon.  starts tells whether load / set_volume / play all return; an
\* exception of theirs skips the rest of the try block.
toggle_music(playing, icon, starts) ==
    IF playing
    THEN [is_music_playing |-> FALSE, speaker_icon |-> "off"]
    ELSE IF starts
         THEN [is_music_playing |-> TRUE, speaker_icon |-> "on"]
         ELSE [is_music_playing |-> playing, speaker_icon |-> icon]

-----------------------------------------------------------------------------
(* The application specification: the user edits the entries, clicks the    *)
(* buttons of the packed screen, navigates and toggles the music, in any    *)
(* order.  raw, market, start_date and end_date are the entries of the      *)
(* screen whose button is clicked next; raw_df is what the provider answers *)
(* to the next download.                                                    *)

GuiRawTexts == {<<>>, <<"a">>}
GuiExpenseTexts == {<<"4", "0", "0", "0", "0">>, <<"x">>}
GuiInflTexts == {<<"0">>, <<"2", "5">>}

\* provider answers: no rows; four years from 16 to 81 (50 % a year); four
\* years from 81 to 16
GuiTables ==
    {[nlevels |-> 1, columns |-> SingleLevel.columns, Date |-> <<>>, AdjClose |-> <<>>],
     [nlevels |-> 1, columns |-> SingleLevel.columns,
      Date |-> <<RetFirst, RetStart, RetLast>>, AdjClose |-> <<16, 16, 81>>],
     [nlevels |-> 1, columns |-> SingleLevel.columns,
      Date |-> <<RetFirst, RetStart, RetLast>>, AdjClose |-> <<16, 81, 16>>]}

InitApp ==
    /\ raw = <<>>
    /\ market = "US"
    /\ ticker = None
    /\ start_date = <<>>
    /\ end_date = <<>>
    /\ raw_df = NoDf
    /\ result = NoResult
    /\ pc = "idle"
    /\ InitGui

\* the user fills in the entries for the next request
EditEntries ==
    /\ pc # "ready"
    /\ raw' \in GuiRawTexts
    /\ entry_expense' \in GuiExpenseTexts
    /\ entry_infl' \in GuiInflTexts
    /\ raw_df' \in GuiTables
    /\ ret' = NoRequest
    /\ result' = NoResult
    /\ ticker' = None
    /\ pc' = "ready"
    /\ UNCHANGED <<market, start_date, end_date, display, packed, last_nav,
                   is_music_playing, speaker_icon>>

\* one call show_stock(): the button of the stock-query frame
ShowStock ==
    /\ pc = "ready"
    /\ "stock_query_frame" \in packed
    /\ \E h \in {show_stock(raw, market, start_date, end_date, raw_df, display)} :
          /\ ret' = request_of(h)
          /\ display' = h.display
          /\ ticker' = h.ticker
          /\ result' = h.fetch
    /\ pc' = "done"
    /\ UNCHANGED <<raw, market, start_date, end_date, raw_df>>
    /\ UNCHANGED <<entry_expense, entry_infl, packed, last_nav,
                   is_music_playing, speaker_icon>>

GoHome ==
    /\ packed' = go_home(packed)
    /\ last_nav' = "go_home"
    /\ UNCHANGED <<raw, market, ticker, start_date, end_date, raw_df, result, pc>>
    /\ UNCHANGED <<entry_expense, entry_infl, ret, display,
                   is_music_playing, speaker_icon>>

OpenStockQuery ==
    /\ packed' = open_stock_query(packed)
    /\ last_nav' = "open_stock_query"
    /\ UNCHANGED <<raw, market, ticker, start_date, end_date, raw_df, result, pc>>
    /\ UNCHANGED <<entry_expense, entry_infl, ret, display,
                   is_music_playing, speaker_icon>>

OpenRetirement ==
    /\ packed' = open_retirement(packed)
    /\ last_nav' = "open_retirement"
    /\ UNCHANGED <<raw, market, ticker, start_date, end_date, raw_df, result, pc>>
    /\ UNCHANGED <<entry_expense, entry_infl, ret, display,
                   is_music_playing, speaker_icon>>

\* one click on the speaker; the start attempt succeeds or raises
ToggleMusic ==
    /\ \E starts \in BOOLEAN :
          \E t \in {toggle_music(is_music_playing, speaker_icon, starts)} :
              /\ is_music_playing' = t.is_music_playing
              /\ speaker_icon' = t.speaker_icon
    /\ UNCHANGED <<raw, market, ticker, start_date, end_date, raw_df, result, pc>>
    /\ UNCHANGED <<entry_expense, entry_infl, ret, display, packed, last_nav>>

NextApp ==
    \/ EditEntries
    \/ ShowStock
    \/ CalculateRetirement
    \/ GoHome
    \/ OpenStockQuery
    \/ OpenRetirement
    \/ ToggleMusic

SpecApp == InitApp /\ [][NextApp]_vars

-----------------------------------------------------------------------------
(* C1 *)

\* the suffix the rule prescribes for a market value
RuleSuffix ==
    IF market = "TW" THEN <<".", "T", "W">>
    ELSE IF market = "JP" THEN <<".", "T">>
    ELSE IF market = "UK" THEN <<".", "L">>
    ELSE <<>>

\* s is t with leading and trailing whitespace removed and "a" upper-cased
IsTrimmedUpper(s, t) ==
    \E i \in 1..(Len(t) + 1) : \E j \in 0..Len(t) :
        /\ \A k \in 1..(i - 1) : t[k] \in Whitespace
        /\ \A k \in (j + 1)..Len(t) : t[k] \in Whitespace
        /\ i <= j => (t[i] \notin Whitespace /\ t[j] \notin Whitespace)
        /\ i > j => (i = Len(t) + 1 /\ j = Len(t))
        /\ Len(s) = (IF i <= j THEN j - i + 1 ELSE 0)
        /\ \A k \in 1..Len(s) :
              s[k] = (IF t[i + k - 1] = "a" THEN "A" ELSE t[i + k - 1])

\* C1: for every raw symbol and market value, format_ticker returns the
\* trimmed, upper-cased symbol followed by exactly the suffix of the market
\* (nothing for US, ".TW" for Taiwan, ".T" for Japan, ".L" for UK, nothing for
\* any other value); the call always returns and changes nothing else.
C1_FormatTicker ==
    pc = "done" =>
        /\ ticker # None
        /\ Len(ticker) >= Len(RuleSuffix)
        /\ SubSeq(ticker, Len(ticker) - Len(RuleSuffix) + 1, Len(ticker)) = RuleSuffix
        /\ IsTrimmedUpper(SubSeq(ticker, 1, Len(ticker) - Len(RuleSuffix)), raw)
        /\ start_date = None /\ end_date = None
        /\ raw_df = NoDf /\ result = NoResult
        /\ display = InitialDisplay /\ ret = NoRequest

\* format_ticker(" a0", Japan) has returned "A0.T"
C1_Witness ==
    /\ pc = "done"
    /\ raw = <<" ", "a", "0">>
    /\ market = "JP"
    /\ ticker = <<"A", "0", ".", "T">>

-----------------------------------------------------------------------------
(* Notions the statements about fetch_price_and_metrics share *)

\* the provider answered a table with rows and an "Adj Close" column
ProviderUsable ==
    /\ Len(raw_df.Date) > 0
    /\ \E i \in 1..Len(raw_df.columns) : raw_df.columns[i][1] = "Adj Close"

\* texts that are not a calendar date
BadDateTexts == {DateText(2021, 13, 1), <<"a", "b", "c">>}

Supplied(s) == s # None /\ s # <<>>

Parses(s) == Supplied(s) /\ s \notin BadDateTexts

\* the call got as far as the emptiness check of line 76
ReachedRangeCheck ==
    /\ pc = "done"
    /\ result.kind \in {"EmptyRange", "IndexError", "ZeroDivisionError", "ok"}

\* the day a date text names, read off the text digit by digit
TextDay(s) ==
    DaysFromCivil(1000 * DigitVal(s[1]) + 100 * DigitVal(s[2])
                    + 10 * DigitVal(s[3]) + DigitVal(s[4]),
                  10 * DigitVal(s[6]) + DigitVal(s[7]),
                  10 * DigitVal(s[9]) + DigitVal(s[10]))

\* the provider's trading days that lie within the supplied bounds
DaysInRange ==
    {raw_df.Date[i] : i \in {k \in 1..Len(raw_df.Date) :
        /\ Parses(start_date) => raw_df.Date[k] >= TextDay(start_date)
        /\ Parses(end_date) => raw_df.Date[k] <= TextDay(end_date)}}

\* the provider's adjusted close on day d
ProviderPrice(d) ==
    raw_df.AdjClose[CHOOSE i \in 1..Len(raw_df.Date) : raw_df.Date[i] = d]

-----------------------------------------------------------------------------
(* C2 *)

\* C2: whenever the filtered price series has fewer than 2 observations
\* (zero rows or exactly one row), fetch_price_and_metrics fails with
\* EmptyRange, never with another error kind and never with a summary.
C2_FewRowsIsEmptyRange ==
    (ReachedRangeCheck /\ Len(result.filtered) < 2) => result.kind = "EmptyRange"

-----------------------------------------------------------------------------
(* C3 *)

\* C3: for a price series of exactly two observations (d0, p0), (d1, p1) a
\* summary is returned with years = (d1 - d0) days / 365.25 and
\* CAGR = (p1/p0) ** (1/years) - 1.
C3_TwoPointSummary ==
    (ReachedRangeCheck /\ Len(result.filtered) = 2) =>
        /\ result.kind = "ok"
        /\ result.metrics.years =
              Rat(4 * (result.filtered[2].Date - result.filtered[1].Date), 1461)
        /\ result.metrics.cagr.base =
              Rat(result.filtered[2].AdjClose, result.filtered[1].AdjClose)
        /\ RatMul(result.metrics.cagr.exponent, result.metrics.years) = FromInt(1)

-----------------------------------------------------------------------------
(* C4 *)

\* the adjusted close of the filtered observation dated d
FilteredPrice(d) ==
    result.filtered[CHOOSE i \in 1..Len(result.filtered) :
                        result.filtered[i].Date = d].AdjClose

\* C4: the cumulative return of the summary equals
\* finalPrice / firstRetainedPrice - 1 (in percent), firstRetainedPrice being
\* the adjusted close of the observation dated at the summary's start date,
\* the base of the CAGR.
C4_CumOverStartPrice ==
    (pc = "done" /\ result.kind = "ok") =>
        result.metrics.cum =
            RatMul(RatSub(Rat(FilteredPrice(result.metrics.end),
                              FilteredPrice(result.metrics.start)),
                          FromInt(1)),
                   FromInt(100))

-----------------------------------------------------------------------------
(* C5 *)

RECURSIVE ProductOfGrowth(_, _)
\* the product of (1 + Return[j]) over the entries j <= i of a ReturnSeries
ProductOfGrowth(rs, i) ==
    IF i = 0 THEN FromInt(1)
    ELSE RatMul(ProductOfGrowth(rs, i - 1), RatAdd(FromInt(1), rs[i].Return))

-----------------------------------------------------------------------------
(* C6 *)

\* C6: when the supplied bounds parse, the filtered series consists of exactly
\* the provider rows dated >= the start date and <= the end date (both bounds
\* inclusive), in their original order; an absent or empty-string bound
\* removes no rows.
C6_FilterInclusive ==
    ReachedRangeCheck =>
        LET days == SortedSeq(DaysInRange)
        IN  /\ Len(result.filtered) = Len(days)
            /\ \A i \in 1..Len(days) :
                /\ result.filtered[i].Date = days[i]
                /\ result.filtered[i].AdjClose = ProviderPrice(days[i])

\* both bounds are trading days of the table, both are kept, and a row before
\* the start and a row after the end are dropped
C6_Witness ==
    /\ ReachedRangeCheck
    /\ start_date = DateText(2021, 6, 30)
    /\ end_date = DateText(2022, 1, 1)
    /\ Len(raw_df.Date) = 4
    /\ raw_df.Date[1] = DaysFromCivil(2021, 1, 1)
    /\ raw_df.Date[4] = DaysFromCivil(2022, 6, 30)
    /\ Len(result.filtered) = 2
    /\ result.filtered[1].Date = DaysFromCivil(2021, 6, 30)
    /\ result.filtered[2].Date = DaysFromCivil(2022, 1, 1)

-----------------------------------------------------------------------------
(* C7 *)

\* C7: with usable provider data and bounds that parse, a request whose start
\* date is after its end date, or whose bounds leave zero provider rows, fails
\* with EmptyRange and returns no ReturnSeries and no summary.
C7_EmptyRange ==
    (/\ pc = "done"
     /\ ProviderUsable
     /\ start_date \notin BadDateTexts
     /\ end_date \notin BadDateTexts
     /\ \/ (Parses(start_date) /\ Parses(end_date)
              /\ TextDay(start_date) > TextDay(end_date))
        \/ DaysInRange = {})
    => /\ result.kind = "EmptyRange"
       /\ result.df = <<>>
       /\ result.metrics = NoMetrics

\* start 2022-01-01 is after end 2021-06-30 although the table has rows on
\* both days, and the request failed with EmptyRange
C7_Witness ==
    /\ pc = "done"
    /\ start_date = DateText(2022, 1, 1)
    /\ end_date = DateText(2021, 6, 30)
    /\ DaysFromCivil(2022, 1, 1) \in {raw_df.Date[i] : i \in 1..Len(raw_df.Date)}
    /\ DaysFromCivil(2021, 6, 30) \in {raw_df.Date[i] : i \in 1..Len(raw_df.Date)}
    /\ ProviderUsable
    /\ result.kind = "EmptyRange"

-----------------------------------------------------------------------------
(* C8 *)

\* C8: whenever the provider's table is empty or has no adjusted-close column,
\* whatever the date bounds are, fetch_price_and_metrics fails with
\* DataUnavailable, and neither filtering nor statistics computation takes
\* place.
C8_DataUnavailable ==
    (pc = "done" /\ ~ProviderUsable) =>
        /\ result.kind = "DataUnavailable"
        /\ result.stages = {"download"}
        /\ result.filtered = <<>>
        /\ result.df = <<>>
        /\ result.metrics = NoMetrics

\* an empty table that has the adjusted-close column, an unparseable start
\* date, and the request failed with DataUnavailable
C8_Witness ==
    /\ pc = "done"
    /\ raw_df.Date = <<>>
    /\ \E i \in 1..Len(raw_df.columns) : raw_df.columns[i][1] = "Adj Close"
    /\ start_date \in BadDateTexts
    /\ result.kind = "DataUnavailable"

-----------------------------------------------------------------------------
(* C9 *)

\* C9: with usable provider data, a supplied start date that cannot be parsed
\* fails the call with InvalidDateFormat (start); a supplied end date that
\* cannot be parsed fails it with InvalidDateFormat (the end-date error unless
\* the start date is itself unparseable, whose error is raised first); no
\* summary is returned in either case.
C9_InvalidDateFormat ==
    (pc = "done" /\ ProviderUsable) =>
        /\ start_date \in BadDateTexts =>
              (result.kind = "InvalidDateFormat_start" /\ result.metrics = NoMetrics)
        /\ end_date \in BadDateTexts =>
              /\ result.kind \in {"InvalidDateFormat_start", "InvalidDateFormat_end"}
              /\ start_date \notin BadDateTexts => result.kind = "InvalidDateFormat_end"
              /\ result.metrics = NoMetrics
              /\ result.df = <<>>

\* the end date 2021-13-01 names no month and was rejected after a start date
\* that parses
C9_Witness ==
    /\ pc = "done"
    /\ ProviderUsable
    /\ start_date = DateText(2021, 6, 30)
    /\ end_date = DateText(2021, 13, 1)
    /\ result.kind = "InvalidDateFormat_end"

-----------------------------------------------------------------------------
(* C10 *)

\* C10: in every returned summary the start date is the date of the second
\* observation of the filtered price series (the first ReturnSeries entry),
\* the end date is the date of the last observation, elapsed years equal
\* (end - start) in whole days / 365.25, and the CAGR is
\* (last adjusted close / adjusted close at that start date) ** (1/years) - 1.
C10_Summary ==
    (pc = "done" /\ result.kind = "ok") =>
        LET ps == result.filtered
            mt == result.metrics
        IN  /\ Len(ps) >= 3
            /\ mt.start = ps[2].Date
            /\ mt.start = result.df[1].Date
            /\ mt.end = ps[Len(ps)].Date
            /\ mt.years.den > 0
            /\ mt.years.num * 1461 = 4 * (mt.end - mt.start) * mt.years.den
            /\ mt.cagr.base.den > 0
            /\ mt.cagr.base.num * ps[2].AdjClose = mt.cagr.base.den * ps[Len(ps)].AdjClose
            /\ mt.cagr.exponent.num * mt.years.num = mt.cagr.exponent.den * mt.years.den

\* a summary over 2021-06-30 .. 2022-06-30 (365 days) from a series that
\* begins on 2021-01-01: CAGR base 110/100, first price 50
C10_Witness ==
    /\ pc = "done"
    /\ result.kind = "ok"
    /\ result.filtered[1] = [Date |-> DaysFromCivil(2021, 1, 1), AdjClose |-> 50]
    /\ result.metrics.start = DaysFromCivil(2021, 6, 30)
    /\ result.metrics.end = DaysFromCivil(2022, 6, 30)
    /\ result.metrics.years = Rat(1460, 1461)
    /\ result.metrics.cagr.base = Rat(11, 10)

-----------------------------------------------------------------------------
(* C11 *)

\* every daily return of the filtered series is non-negative
AllReturnsNonNegative ==
    \A i \in 2..Len(result.filtered) :
        result.filtered[i].AdjClose >= result.filtered[i - 1].AdjClose

\* some daily return differs from another after clipping at 0
DownsideVaries ==
    \E i, j \in 1..Len(result.df) :
        clip_upper0(result.df[i].Return) # clip_upper0(result.df[j].Return)

\* C11: whenever the ReturnSeries is non-empty and every daily return is
\* non-negative, a summary is still returned, with Sortino the not-a-number
\* marker: the call does not fail and does not divide by zero.  When the
\* downside deviation is non-zero, Sortino = CAGR / (stdev of min(return, 0)
\* x sqrt(252)).
C11_SortinoUndefined ==
    /\ (ReachedRangeCheck /\ Len(result.filtered) >= 2 /\ AllReturnsNonNegative) =>
            (result.kind = "ok" /\ result.metrics.sortino.nan)
    /\ (pc = "done" /\ result.kind = "ok" /\ DownsideVaries) =>
            /\ ~result.metrics.sortino.nan
            /\ result.metrics.sortino.cagr = result.metrics.cagr
            /\ result.metrics.sortino.dvar =
                  sample_var([i \in 1..Len(result.df) |->
                                 clip_upper0(result.df[i].Return)])

\* the same statement for the series that yield a summary (three or more
\* observations)
C11_FromThreeObservations ==
    /\ (ReachedRangeCheck /\ Len(result.filtered) >= 3 /\ AllReturnsNonNegative) =>
            (result.kind = "ok" /\ result.metrics.sortino.nan)
    /\ (pc = "done" /\ result.kind = "ok" /\ DownsideVaries) =>
            (~result.metrics.sortino.nan /\ result.metrics.sortino.dvar.num > 0)

-----------------------------------------------------------------------------
(* C12 *)

\* the retirement request has come back
RetDone == pc = "done" /\ ret.handler = "calculate_retirement"

\* the annual expense and the inflation rate the entries hold
ExpenseEntered == IF entry_expense = <<"4", "0", "0", "0", "0">> THEN FromInt(40000) ELSE NaN
InflEntered ==
    IF entry_infl = <<"5", "0">> THEN Rat(1, 2)
    ELSE IF entry_infl = <<"2", "5">> THEN Rat(1, 4)
    ELSE IF entry_infl = <<"0">> THEN FromInt(0) ELSE NaN

\* the annualized return of a four-year series from its first to its last
\* observation: the rate r with (1 + r)^4 = last / first
AnnualizedOver4(first, last) ==
    CHOOSE r \in {RatSub(Rat(a, b), FromInt(1)) : a \in 1..4, b \in 1..4} :
        \E a \in 1..4, b \in 1..4 :
            /\ r = RatSub(Rat(a, b), FromInt(1))
            /\ a * a * a * a * first = b * b * b * b * last

\* the annualized return of the summary the request computed
AnnualizedReturn ==
    AnnualizedOver4(ret.fetch.df[1].AdjClose, ret.fetch.df[Len(ret.fetch.df)].AdjClose)

\* C12: when the summary was computed, a required capital is produced iff
\* annualized return - inflation > 0, and is then expense / (annualized return
\* - inflation); a difference <= 0, exactly 0 included, ends the request with
\* InsufficientReturn and without a capital figure.
C12_RequiredCapital ==
    (RetDone /\ ret.fetch.kind = "ok") =>
        LET diff == RatSub(AnnualizedReturn, InflEntered)
        IN  /\ ret.kind \in {"ok", "InsufficientReturn"}
            /\ (ret.kind = "ok") <=> (diff.num > 0)
            /\ ret.kind = "ok" =>
                  /\ ret.need_capital = RatDiv(ExpenseEntered, diff)
                  /\ Len(display.txt_result_ret) = 1
                  /\ display.txt_result_ret[1].need_capital
                        = format_f(RatDiv(ExpenseEntered, diff), 0)
            /\ ret.kind = "InsufficientReturn" =>
                  /\ IsNaN(ret.need_capital)
                  /\ display.txt_result_ret = <<>>

\* an annualized return of 50 % against 25 % inflation: 40000 / 0.25 = 160000
C12_Witness ==
    /\ RetDone
    /\ ret.kind = "ok"
    /\ AnnualizedReturn = Rat(1, 2)
    /\ InflEntered = Rat(1, 4)
    /\ ret.need_capital = FromInt(160000)

-----------------------------------------------------------------------------
(* C13 *)

\* texts float() rejects
NotANumber == {<<>>, <<"x">>, <<"a", "b", "c">>}

\* C13: when the expense text or the inflation text is not a number, the
\* request ends with the validation error of the first such text, the provider
\* is never called and fetch_price_and_metrics is never entered; a blank
\* ticker does not change that.
C13_NumericBeforeProvider ==
    (RetDone /\ (entry_expense \in NotANumber \/ entry_infl \in NotANumber)) =>
        /\ ret.kind = (IF entry_expense \in NotANumber
                       THEN "NonNumericExpense" ELSE "NonNumericInflation")
        /\ ret.provider_calls = 0
        /\ ret.fetch = NoResult
        /\ result = NoResult
        /\ display = InitialDisplay

\* a non-numeric inflation text together with a blank ticker
C13_Witness ==
    /\ RetDone
    /\ entry_expense \notin NotANumber
    /\ entry_infl \in NotANumber
    /\ strip(raw) = <<>>
    /\ ret.kind = "NonNumericInflation"
    /\ ret.provider_calls = 0

-----------------------------------------------------------------------------
(* C14 *)

\* the same price data under the other column layout: field names alone, or
\* (field name, ticker) pairs
OtherLayout(df) ==
    IF df.nlevels = 1
    THEN [df EXCEPT !.nlevels = 2,
                    !.columns = [i \in 1..Len(df.columns) |-> df.columns[i] \o <<"TKR">>]]
    ELSE [df EXCEPT !.nlevels = 1,
                    !.columns = [i \in 1..Len(df.columns) |-> SubSeq(df.columns[i], 1, 1)]]

\* C14: the summary, or the failure, of fetch_price_and_metrics is the same
\* whether the provider answers with single-level or with multi-level columns
\* over the same data, and flatten leaves a single-level table unchanged.
C14_LayoutIndependent ==
    pc = "done" =>
        /\ OtherLayout(raw_df).nlevels # raw_df.nlevels
        /\ result = fetch_price_and_metrics(ticker, start_date, end_date, OtherLayout(raw_df))
        /\ raw_df.nlevels = 1 => flatten(raw_df) = raw_df

\* a multi-level table whose summary was computed
C14_Witness ==
    /\ pc = "done"
    /\ raw_df.nlevels = 2
    /\ result.kind = "ok"
    /\ Len(result.df) >= 2

-----------------------------------------------------------------------------
(* C15 *)

\* the series of a successful retirement calculation and its calendar years
RetSeries == ret.fetch.df
RetYears == {CivilFromDays(RetSeries[i].Date).year : i \in 1..Len(RetSeries)}

\* the position in the series of the first / last trading date of year y
FirstOfYear(y) ==
    CHOOSE i \in 1..Len(RetSeries) :
        /\ CivilFromDays(RetSeries[i].Date).year = y
        /\ \A j \in 1..(i - 1) : CivilFromDays(RetSeries[j].Date).year # y
LastOfYear(y) ==
    CHOOSE i \in 1..Len(RetSeries) :
        /\ CivilFromDays(RetSeries[i].Date).year = y
        /\ \A j \in (i + 1)..Len(RetSeries) : CivilFromDays(RetSeries[j].Date).year # y

\* one row per calendar year, in ascending year order
OneRowPerYear ==
    /\ Len(display.table_ret) = Cardinality(RetYears)
    /\ {display.table_ret[k].Year : k \in 1..Len(display.table_ret)} = RetYears
    /\ \A k \in 1..(Len(display.table_ret) - 1) :
          display.table_ret[k].Year < display.table_ret[k + 1].Year

\* the end date, price and annual return columns
YearColumns ==
    \A k \in 1..Len(display.table_ret) :
        LET row == display.table_ret[k]
            lst == RetSeries[LastOfYear(row.Year)]
            fst == RetSeries[FirstOfYear(row.Year)]
        IN  /\ row.end_date = date_text(lst.Date)
            /\ row.end_price = 100 * lst.AdjClose
            /\ row.annual_return
                  = format_f(RatMul(RatSub(Rat(lst.AdjClose, fst.AdjClose), FromInt(1)),
                                    FromInt(100)), 2)

\* the cumulative return column is the series' cumulative return at the
\* year's last trading date
CumAsOfYearEnd ==
    \A k \in 1..Len(display.table_ret) :
        display.table_ret[k].cum_return
            = format_f(RatMul(RetSeries[LastOfYear(display.table_ret[k].Year)].CumReturn,
                              FromInt(100)), 2)

\* C15: a successful retirement calculation fills the table with one row per
\* calendar year of the series, ascending, whose cumulative return column is
\* the cumulative return as of the year's last trading date, whose end date
\* and price are that date and its adjusted close, and whose annual return is
\* (last / first adjusted close of the year - 1) x 100.
C15_YearTable ==
    (RetDone /\ ret.kind = "ok") => (OneRowPerYear /\ YearColumns /\ CumAsOfYearEnd)

\* what the code does keep: everything but the cumulative return column, which
\* holds the largest cumulative return reached within the year
C15_RowsAndYearColumns ==
    (RetDone /\ ret.kind = "ok") =>
        /\ OneRowPerYear
        /\ YearColumns
        /\ \A k \in 1..Len(display.table_ret) :
              \E i \in 1..Len(RetSeries) :
                  /\ CivilFromDays(RetSeries[i].Date).year = display.table_ret[k].Year
                  /\ display.table_ret[k].cum_return
                        = format_f(RatMul(RetSeries[i].CumReturn, FromInt(100)), 2)

-----------------------------------------------------------------------------
(* C16 *)

\* C16: the checks come in a fixed order and only the first failing one is
\* reported: DataUnavailable, then the start date's InvalidDateFormat, then the
\* end date's, then EmptyRange.  An unusable table with an unparseable date
\* gives DataUnavailable, two unparseable dates give the start-date error, and
\* an unparseable end date is reported even when the start bound leaves no row.
C16_CheckOrder ==
    pc = "done" =>
        /\ ~ProviderUsable => result.kind = "DataUnavailable"
        /\ (ProviderUsable /\ start_date \in BadDateTexts) =>
              result.kind = "InvalidDateFormat_start"
        /\ (ProviderUsable /\ start_date \notin BadDateTexts /\ end_date \in BadDateTexts) =>
              result.kind = "InvalidDateFormat_end"
        /\ (ProviderUsable /\ start_date \notin BadDateTexts /\ end_date \notin BadDateTexts) =>
              /\ result.kind \notin {"DataUnavailable", "InvalidDateFormat_start",
                                     "InvalidDateFormat_end"}
              /\ DaysInRange = {} => result.kind = "EmptyRange"

\* the start bound 2022-07-01 lies after every trading day, and the text of
\* the end date is still the error reported
C16_Witness ==
    /\ pc = "done"
    /\ ProviderUsable
    /\ start_date = DateText(2022, 7, 1)
    /\ \A i \in 1..Len(raw_df.Date) : raw_df.Date[i] < TextDay(start_date)
    /\ end_date \in BadDateTexts
    /\ result.kind = "InvalidDateFormat_end"

-----------------------------------------------------------------------------
(* C17 *)

\* the ways a request fails
FailureKinds ==
    {"EmptyTicker", "NonNumericExpense", "NonNumericInflation",
     "FetchFailed", "InsufficientReturn"}

\* C17: a request that ends with a failure (empty ticker, non-numeric input,
\* any error raised by fetch_price_and_metrics, InsufficientReturn) has called
\* the provider at most once and leaves chart, result text and per-year table
\* as they were; what they hold changes only in a step that is a successful
\* request, so after a failure they still hold what the last success left.
C17_FailureKeepsDisplay ==
    [][ /\ (pc = "ready" /\ pc' = "done") =>
              /\ ret'.kind \in FailureKinds \cup {"ok"}
              /\ ret'.provider_calls <= 1
              /\ ret'.kind \in FailureKinds => display' = display
        /\ display' # display => (pc = "ready" /\ pc' = "done" /\ ret'.kind = "ok")
      ]_vars

\* a retirement request that ended with InsufficientReturn while chart, table
\* and text of an earlier successful calculation are still shown
C17_Witness ==
    /\ pc = "done"
    /\ ret.handler = "calculate_retirement"
    /\ ret.kind = "InsufficientReturn"
    /\ ret.provider_calls = 1
    /\ display.ax_ret # <<>>
    /\ display.table_ret # <<>>
    /\ display.txt_result_ret # <<>>
    /\ display.ax_ret[1].y # [i \in 1..Len(ret.fetch.df) |-> ret.fetch.df[i].AdjClose]

-----------------------------------------------------------------------------
(* C18 *)

\* the screen a navigation operation shows
ScreenOf(nav) ==
    CASE nav = "go_home" -> "main_canvas"
      [] nav = "open_stock_query" -> "stock_query_frame"
      [] nav = "open_retirement" -> "retirement_frame"

\* C18: from the home screen on, after any sequence of go_home,
\* open_stock_query and open_retirement exactly one of the three screens is
\* packed, the one of the most recent navigation operation; a navigation step
\* changes neither the music flag (or its icon) nor any displayed result.
C18_Navigation ==
    /\ packed = {"main_canvas"}
    /\ [][ /\ packed' \subseteq Screens
           /\ Cardinality(packed') = 1
           /\ packed' = {ScreenOf(last_nav')}
           /\ (packed' # packed \/ last_nav' # last_nav) =>
                 /\ is_music_playing' = is_music_playing
                 /\ speaker_icon' = speaker_icon
                 /\ display' = display
                 /\ ret' = ret
         ]_vars

\* the stock-query screen opened from the retirement screen, with music on and
\* a query result on display
C18_Witness ==
    /\ last_nav = "open_stock_query"
    /\ packed = {"stock_query_frame"}
    /\ is_music_playing
    /\ display.txt_result_ret # <<>>
    /\ display.ax_stock # <<>>

-----------------------------------------------------------------------------
(* C19 *)

\* the variables toggle_music does not touch
notMusic ==
    <<raw, market, ticker, start_date, end_date, raw_df, result, pc,
      entry_expense, entry_infl, ret, display, packed, last_nav>>

\* C19: from flag False and the off icon on, after any sequence of
\* toggle_music calls whose start attempts succeed or fail, the icon is the
\* on icon iff is_music_playing; a toggle while playing ends with the flag
\* False, and a start attempt that fails leaves the flag False and the icon
\* off.
C19_MusicToggle ==
    /\ (~is_music_playing /\ speaker_icon = "off")
    /\ [][ /\ (speaker_icon' = "on") <=> is_music_playing'
           /\ (is_music_playing /\ UNCHANGED notMusic) =>
                 (~is_music_playing' /\ speaker_icon' = "off")
           /\ ~is_music_playing' =>
                 toggle_music(is_music_playing', speaker_icon', FALSE)
                    = [is_music_playing |-> FALSE, speaker_icon |-> "off"]
         ]_vars

\* the music was started and the stock-query screen is shown
C19_Witness ==
    /\ is_music_playing
    /\ speaker_icon = "on"
    /\ packed = {"stock_query_frame"}

====
